---- MODULE Spec2Model ----
(***************************************************************************)
(* Model of app.py (Lezioni-da-YouTube): the URL identifier extractor, the *)
(* transcript retrieval with its track selection and error mapping, the    *)
(* lesson card templater with its Markdown escaping, and the submission    *)
(* handler main() that chains them.                                        *)
(*                                                                         *)
(* Strings are sequences of one-character strings, so that searching,      *)
(* slicing, replacing and splitting are computed, not assumed.             *)
(***************************************************************************)
EXTENDS Integers, Sequences, FiniteSets, TLC

VARIABLES
    pc,               \* position of the handler / of the function under study
    youtube_url,      \* st.text_input value
    generate_button,  \* st.button value of the current run
    video_id,         \* result of extract_video_id, or None
    svc_calls,        \* service calls made in this submission, in order
    transcript_list,  \* tracks returned by api.list, in iteration order
    transcript,       \* the selected track
    transcript_data,  \* the segments returned by transcript.fetch()
    transcript_text,  \* result of get_transcript
    lesson_card,      \* result of generate_lesson_from_text
    st_error,         \* the st.error message shown by this run
    st_info,          \* the st.info hint shown by this run
    rendered,         \* lesson card passed to st.markdown
    download,         \* st.download_button data and file name
    log               \* pipeline steps of this submission, in order

vars == <<pc, youtube_url, generate_button, video_id, svc_calls, transcript_list,
          transcript, transcript_data, transcript_text, lesson_card, st_error,
          st_info, rendered, download, log>>

(***************************************************************************)
(* Bounds of the model and constants of the program                        *)
(***************************************************************************)
\* longest run of junk characters put in front of a URL
MaxJunk == 1

\* {11} in the four patterns
IdLength == 11

Max(S) == CHOOSE x \in S : \A y \in S : y <= x

Min(S) == CHOOSE x \in S : \A y \in S : x <= y

\* Python's None, as a value no string equals
None == <<"None">>

(***************************************************************************)
(* extract_video_id                                                        *)
(***************************************************************************)
Lower == {"a","b","c","d","e","f","g","h","i","j","k","l","m","n","o","p","q","r","s","t","u","v","w","x","y","z"}

Upper == {"A","B","C","D","E","F","G","H","I","J","K","L","M","N","O","P","Q","R","S","T","U","V","W","X","Y","Z"}

Digits == {"0","1","2","3","4","5","6","7","8","9"}

\* the character class [a-zA-Z0-9_-]
IdChars == Lower \cup Upper \cup Digits \cup {"_", "-"}

\* the literal text at position p of s
StartsAt(s, p, lit) ==
    /\ p >= 1
    /\ p + Len(lit) - 1 <= Len(s)
    /\ \A i \in 1..Len(lit) : s[p + i - 1] = lit[i]

\* ([a-zA-Z0-9_-]{11}) at position p of s
TokenAt(s, p) ==
    /\ p >= 1
    /\ p + IdLength - 1 <= Len(s)
    /\ \A i \in p..(p + IdLength - 1) : s[i] \in IdChars

\* the dot of the pattern matches every character but a newline
NoNewline(s, lo, hi) == \A i \in lo..hi : s[i] # "\n"

\* pattern list without the legacy v/ form
patterns_no_v ==
    << [lit |-> <<"y","o","u","t","u","b","e",".","c","o","m","/","w","a","t","c","h","?">>, query |-> TRUE],
       [lit |-> <<"y","o","u","t","u",".","b","e","/">>, query |-> FALSE],
       [lit |-> <<"y","o","u","t","u","b","e",".","c","o","m","/","e","m","b","e","d","/">>, query |-> FALSE] >>

\* the four patterns, in the order tried: the text that follows the optional
\* scheme and www., and whether (?:.*&)?v= stands between it and the token
patterns ==
    << [lit |-> <<"y","o","u","t","u","b","e",".","c","o","m","/","w","a","t","c","h","?">>, query |-> TRUE],
       [lit |-> <<"y","o","u","t","u",".","b","e","/">>, query |-> FALSE],
       [lit |-> <<"y","o","u","t","u","b","e",".","c","o","m","/","e","m","b","e","d","/">>, query |-> FALSE],
       [lit |-> <<"y","o","u","t","u","b","e",".","c","o","m","/","v","/">>, query |-> FALSE] >>

\* (?:https?:\/\/)? at p: the positions where the rest may go on, the greedy
\* choice first
SchemeEnds(s, p) ==
    (IF StartsAt(s, p, <<"h","t","t","p","s",":","/","/">>) THEN <<p + 8>>
     ELSE IF StartsAt(s, p, <<"h","t","t","p",":","/","/">>) THEN <<p + 7>>
     ELSE <<>>) \o <<p>>

\* (?:www\.)? at p, the greedy choice first
WwwEnds(s, p) ==
    (IF StartsAt(s, p, <<"w","w","w",".">>) THEN <<p + 4>> ELSE <<>>) \o <<p>>

\* the positions after both optional groups, in backtracking order
PrefixEnds(s, p) ==
    LET a == SchemeEnds(s, p)
        Rest(i) == WwwEnds(s, a[i])
    IN  IF Len(a) = 2 THEN Rest(1) \o Rest(2) ELSE Rest(1)

\* the rest of pattern pat at q: where the captured group starts, 0 for no match
TailMatch(pat, s, q) ==
    IF ~StartsAt(s, q, pat.lit) THEN 0
    ELSE LET r == q + Len(pat.lit)
         IN  IF pat.query
             THEN LET amps == { a \in r..Len(s) :
                                  /\ s[a] = "&"
                                  /\ NoNewline(s, r, a - 1)
                                  /\ StartsAt(s, a + 1, <<"v","=">>)
                                  /\ TokenAt(s, a + 3) }
                  IN  IF amps # {} THEN Max(amps) + 3
                      ELSE IF StartsAt(s, r, <<"v","=">>) /\ TokenAt(s, r + 2)
                           THEN r + 2 ELSE 0
             ELSE IF TokenAt(s, r) THEN r ELSE 0

\* a match of pat that starts at p: where the captured group starts, or 0
MatchAt(pat, s, p) ==
    LET ends == PrefixEnds(s, p)
        hits == { i \in 1..Len(ends) : TailMatch(pat, s, ends[i]) # 0 }
    IN  IF hits = {} THEN 0 ELSE TailMatch(pat, s, ends[Min(hits)])

\* re.search(pattern, url): the leftmost match; start of group 1, or 0
re_search(pat, s) ==
    LET starts == { p \in 1..(Len(s) + 1) : MatchAt(pat, s, p) # 0 }
    IN  IF starts = {} THEN 0 ELSE MatchAt(pat, s, Min(starts))

\* the group captured by the first pattern of the list that matches
extract_video_id(url) ==
    LET found == [k \in 1..Len(patterns) |-> re_search(patterns[k], url)]
        matching == { k \in 1..Len(patterns) : found[k] # 0 }
    IN  IF matching = {} THEN None
        ELSE SubSeq(url, found[Min(matching)], found[Min(matching)] + IdLength - 1)

(***************************************************************************)
(* The URLs submitted to the extractor                                     *)
(***************************************************************************)
Junk == { [i \in 1..n |-> "x"] : n \in 0..MaxJunk }

Schemes == { <<>>, <<"h","t","t","p","s",":","/","/">>, <<"h","t","t","p",":","/","/">> }

Wwws == { <<>>, <<"w","w","w",".">> }

Hosts ==
    { <<"y","o","u","t","u","b","e",".","c","o","m","/","w","a","t","c","h","?">>,
      <<"y","o","u","t","u",".","b","e","/">>,
      <<"y","o","u","t","u","b","e",".","c","o","m","/","e","m","b","e","d","/">>,
      <<"y","o","u","t","u","b","e",".","c","o","m","/","v","/">>,
      <<"v","i","m","e","o",".","c","o","m","/","w","a","t","c","h","?">>,
      <<"y","o","u","t","u","b","e",".","c","o","m","/","s","h","o","r","t","s","/">> }

Queries == { <<>>, <<"v","=">>, <<"t","=","5","s","&","v","=">>, <<"x","v","=">> }

Tokens ==
    { <<"A","B","C","D","E","F","G","H","I","J","K">>,
      <<"a","-","_","0","1","2","3","4","5","6","7">>,
      <<"A","B","C","D","E","F","G","H","I","J">>,
      <<"A","B","C","D","E","!","G","H","I","J","K">> }

Suffixes ==
    { <<>>,
      <<"&","t","=","5","s">>,
      <<"L">>,
      <<"&","v","=","B","B","B","B","B","B","B","B","B","B","B">>,
      <<" ","y","o","u","t","u",".","b","e","/","B","B","B","B","B","B","B","B","B","B","B">>,
      <<" ","y","o","u","t","u","b","e",".","c","o","m","/","w","a","t","c","h","?","v","=","B","B","B","B","B","B","B","B","B","B","B">> }

UrlInputs ==
    { j \o s \o w \o h \o q \o t \o x :
        j \in Junk, s \in Schemes, w \in Wwws, h \in Hosts, q \in Queries,
        t \in Tokens, x \in Suffixes }

(***************************************************************************)
(* generate_lesson_from_text and its helper escape_markdown                *)
(***************************************************************************)
\* transcript_text[:500]
PreviewLimit == 500

\* longest of the short transcripts enumerated
MaxTextLen == 3

\* how far past PreviewLimit the long transcripts go
LongExtra == 2

\* text.replace(char, '\\' + char) on text[lo..hi]
RECURSIVE ReplaceRange(_, _, _, _)
ReplaceRange(text, char, lo, hi) ==
    IF lo > hi THEN <<>>
    ELSE IF lo = hi
         THEN (IF text[lo] = char THEN <<"\\", char>> ELSE <<text[lo]>>)
         ELSE LET mid == (lo + hi) \div 2
              IN  ReplaceRange(text, char, lo, mid) \o ReplaceRange(text, char, mid + 1, hi)

Replace(text, char) == ReplaceRange(text, char, 1, Len(text))

\* the grave accent character, which a string literal here cannot hold
Backtick == "grave"

\* the list with the backslash handled last instead of first
special_chars_backslash_last ==
    <<Backtick, "*", "_", "{", "}", "[", "]", "(", ")", "#", "+", "-", ".", "!", "|", "\\">>

special_chars ==
    <<"\\", Backtick, "*", "_", "{", "}", "[", "]", "(", ")", "#", "+", "-", ".", "!", "|">>

\* text after the first k substitutions of the loop
RECURSIVE EscapePasses(_, _)
EscapePasses(text, k) ==
    IF k = 0 THEN text
    ELSE Replace(EscapePasses(text, k - 1), special_chars[k])

escape_markdown(text) == EscapePasses(text, Len(special_chars))

\* the characters str.split() treats as separators
Whitespace == {" ", "\t", "\n", "\r", "\f"}

\* the maximal runs of non-whitespace of text[lo..hi], left to right: those
\* of the two halves, the run that crosses the middle put together again
RECURSIVE SplitRange(_, _, _)
SplitRange(text, lo, hi) ==
    IF lo > hi THEN <<>>
    ELSE IF lo = hi
         THEN (IF text[lo] \in Whitespace THEN <<>> ELSE <<(<<text[lo]>>)>>)
         ELSE LET mid == (lo + hi) \div 2
                  l == SplitRange(text, lo, mid)
                  r == SplitRange(text, mid + 1, hi)
              IN  IF text[mid] \notin Whitespace /\ text[mid + 1] \notin Whitespace
                  THEN SubSeq(l, 1, Len(l) - 1) \o <<l[Len(l)] \o r[1]>> \o Tail(r)
                  ELSE l \o r

\* transcript_text.split()
split(text) == SplitRange(text, 1, Len(text))

\* a word count taken from the truncated text
WordCountTruncated(transcript_text_) ==
    Len(split(SubSeq(transcript_text_, 1, Min({PreviewLimit, Len(transcript_text_)}))))

\* word_count = len(transcript_text.split())
WordCount(transcript_text_) == Len(split(transcript_text_))

\* preview = transcript_text[:500] + "..." if len(transcript_text) > 500 else transcript_text
Preview(transcript_text_) ==
    IF Len(transcript_text_) > PreviewLimit
    THEN SubSeq(transcript_text_, 1, PreviewLimit) \o <<".", ".", ".">>
    ELSE transcript_text_

\* the lesson card: the three values substituted into the fixed template
generate_lesson_from_text(transcript_text_) ==
    [ word_count         |-> WordCount(transcript_text_),
      preview_escaped    |-> escape_markdown(Preview(transcript_text_)),
      transcript_escaped |-> escape_markdown(transcript_text_) ]

\* no lesson card
NoCard == [ word_count |-> -1, preview_escaped |-> <<>>, transcript_escaped |-> <<>> ]

(***************************************************************************)
(* The transcripts handed to the templater                                 *)
(***************************************************************************)
TextAlphabet == {"a", " ", "\n", "*", "\\", "."}

ShortTexts == UNION { [1..n -> TextAlphabet] : n \in 0..MaxTextLen }

SpecialSet == { special_chars[k] : k \in 1..Len(special_chars) }

SpecialTexts == { <<c, d>> : c \in SpecialSet, d \in SpecialSet \cup {"a"} }

ExampleTexts == { <<"a", "*", "b", "_", "c">> }

\* unit repeated up to length n
Cycle(unit, n) == [i \in 1..n |-> unit[((i - 1) % Len(unit)) + 1]]

LongUnits == { <<"a">>, <<"a", " ">>, <<"*">>, <<"a", "a", ".", "\\", " ">> }

LongTexts ==
    { Cycle(u, n) : u \in LongUnits, n \in (PreviewLimit - 1)..(PreviewLimit + LongExtra) }

TextInputs == ShortTexts \cup SpecialTexts \cup ExampleTexts \cup LongTexts

(***************************************************************************)
(* The transcript service and get_transcript                               *)
(***************************************************************************)
\* most tracks a video offers
MaxTracks == 2

\* most segments a track holds
MaxSegs == 2

Langs == {"it", "en", "fr", "de"}

TrackPool == [language_code : Langs, is_generated : BOOLEAN]

\* the service lists the manually created tracks before the generated ones,
\* and holds one track per language in each group
IsTrackList(tl) ==
    \A i \in 1..Len(tl) : \A j \in (i + 1)..Len(tl) :
        /\ tl[i].is_generated => tl[j].is_generated
        /\ tl[i] # tl[j]

TrackLists ==
    { tl \in UNION { [1..n -> TrackPool] : n \in 0..MaxTracks } : IsTrackList(tl) }

NoTrack == [language_code |-> "none", is_generated |-> FALSE]

SegPool ==
    { [text |-> <<"H","e","l","l","o">>, start |-> 0, duration |-> 2],
      [text |-> <<"w","o","r","l","d">>, start |-> 2, duration |-> 3],
      [text |-> <<"a"," ","*">>,         start |-> 5, duration |-> 1],
      [text |-> <<>>,                    start |-> 6, duration |-> 0] }

SegmentLists == UNION { [1..n -> SegPool] : n \in 0..MaxSegs }

\* the three conditions get_transcript catches
NamedErrors == {"TranscriptsDisabled", "NoTranscriptFound", "VideoUnavailable"}

\* a failure of the library that get_transcript does not catch
OtherErrors == {"RequestBlocked"}

ServiceErrors == NamedErrors \cup OtherErrors

\* the language codes with English asked for first
language_codes_en_first == <<"en", "it">>

\* find_transcript(['it', 'en'])
language_codes == <<"it", "en">>

\* transcript_list.find_transcript(codes): the index of the first track, in
\* iteration order, of the first code that some track has; 0 for NoTranscriptFound
RECURSIVE FindFrom(_, _, _)
FindFrom(tl, codes, k) ==
    IF k > Len(codes) THEN 0
    ELSE LET idx == { i \in 1..Len(tl) : tl[i].language_code = codes[k] }
         IN  IF idx # {} THEN Min(idx) ELSE FindFrom(tl, codes, k + 1)

find_transcript(tl) == FindFrom(tl, language_codes, 1)

\* the try block that chooses the track: the index chosen, 0 when
\* NoTranscriptFound leaves the block
select_track(tl) ==
    IF find_transcript(tl) # 0 THEN find_transcript(tl)
    ELSE IF Len(tl) > 0 THEN 1
    ELSE 0

\* every text followed by the separator
RECURSIVE JoinTrailing(_, _)
JoinTrailing(texts, sep) ==
    IF Len(texts) = 0 THEN <<>>
    ELSE texts[1] \o sep \o JoinTrailing(Tail(texts), sep)

\* sep.join(texts)
RECURSIVE Join(_, _)
Join(texts, sep) ==
    IF Len(texts) = 0 THEN <<>>
    ELSE IF Len(texts) = 1 THEN texts[1]
    ELSE texts[1] \o sep \o Join(Tail(texts), sep)

\* " ".join([entry['text'] for entry in transcript_data])
full_text(data) == Join([i \in 1..Len(data) |-> data[i].text], <<" ">>)

\* a mapping that gives an unavailable video the message of a missing transcript
ExceptionMessageMerged(e) ==
    CASE e = "TranscriptsDisabled" -> "Le trascrizioni sono disabilitate per questo video."
      [] e = "NoTranscriptFound"   -> "Nessuna trascrizione trovata per questo video."
      [] e = "VideoUnavailable"    -> "Nessuna trascrizione trovata per questo video."
      [] OTHER                     -> "The request was blocked."

\* the text of the exception that leaves get_transcript when the service
\* raises e: the three except clauses, and the library's own text otherwise
ExceptionMessage(e) ==
    CASE e = "TranscriptsDisabled" -> "Le trascrizioni sono disabilitate per questo video."
      [] e = "NoTranscriptFound"   -> "Nessuna trascrizione trovata per questo video."
      [] e = "VideoUnavailable"    -> "Video non disponibile o ID non valido."
      [] OTHER                     -> "The request was blocked."

(***************************************************************************)
(* main: one run of the script per interaction                             *)
(***************************************************************************)
NoError == <<>>

EmptyUrlError == <<"Per favore, inserisci un URL di YouTube valido.">>

InvalidUrlError == <<"URL non valido. Assicurati di inserire un URL YouTube corretto.">>

TranscriptError(msg) == <<"Errore: ", msg>>

NoInfo == [title |-> "", shapes |-> {}]

\* the hint shown with InvalidUrlError: the URL forms it lists, each without
\* the optional scheme and www. and without VIDEO_ID
FormatHint ==
    [ title  |-> "Formati supportati:",
      shapes |-> { <<"y","o","u","t","u","b","e",".","c","o","m","/","w","a","t","c","h","?","v","=">>,
                   <<"y","o","u","t","u",".","b","e","/">>,
                   <<"y","o","u","t","u","b","e",".","c","o","m","/","e","m","b","e","d","/">> } ]

CausesHint == [title |-> "Possibili cause:", shapes |-> {}]

NoDownload == [data |-> NoCard, file_name |-> <<>>]

\* a test that lets every extraction result through
NotVideoIdNever(id) == FALSE

\* not video_id
NotVideoId(id) == id = None

PipelineUrls ==
    { <<>>,
      <<"h","e","l","l","o">>,
      <<"y","o","u","t","u","b","e",".","c","o","m","/","s","h","o","r","t","s","/","A","B","C","D","E","F","G","H","I","J","K">>,
      <<"h","t","t","p","s",":","/","/","w","w","w",".","y","o","u","t","u","b","e",".","c","o","m","/","w","a","t","c","h","?","v","=","A","B","C","D","E","F","G","H","I","J","K","&","t","=","5","s">>,
      <<"y","o","u","t","u","b","e",".","c","o","m","/","v","/","a","-","_","0","1","2","3","4","5","6","7">> }

\* the state a run starts from: nothing shown, nothing fetched
Blank ==
    /\ video_id = None
    /\ svc_calls = <<>>
    /\ transcript_list = <<>>
    /\ transcript = NoTrack
    /\ transcript_data = <<>>
    /\ transcript_text = <<>>
    /\ lesson_card = NoCard
    /\ st_error = NoError
    /\ st_info = NoInfo
    /\ rendered = NoCard
    /\ download = NoDownload
    /\ log = <<>>

Init ==
    /\ pc = "idle"
    /\ youtube_url = <<>>
    /\ generate_button = FALSE
    /\ Blank

\* get_transcript raised: main shows the message and the causes, and returns
Raise(op, e) ==
    /\ svc_calls' = Append(svc_calls, [op |-> op, outcome |-> e])
    /\ st_error' = TranscriptError(ExceptionMessage(e))
    /\ st_info' = CausesHint
    /\ pc' = "done"

\* a run of main, started by an interaction with the page, up to the call of
\* get_transcript
Run ==
    /\ pc = "idle"
    /\ \E url \in PipelineUrls, button \in BOOLEAN :
        /\ youtube_url' = url
        /\ generate_button' = button
        /\ UNCHANGED <<svc_calls, transcript_list, transcript, transcript_data,
                       transcript_text, lesson_card, rendered, download>>
        /\ IF ~button
           THEN /\ video_id' = None
                /\ st_error' = NoError
                /\ st_info' = NoInfo
                /\ log' = <<>>
                /\ pc' = "done"
           ELSE IF url = <<>>
           THEN /\ video_id' = None
                /\ st_error' = EmptyUrlError
                /\ st_info' = NoInfo
                /\ log' = <<>>
                /\ pc' = "done"
           ELSE /\ video_id' = extract_video_id(url)
                /\ log' = <<"extract">>
                /\ IF NotVideoId(video_id')
                   THEN /\ st_error' = InvalidUrlError
                        /\ st_info' = FormatHint
                        /\ pc' = "done"
                   ELSE /\ st_error' = NoError
                        /\ st_info' = NoInfo
                        /\ pc' = "list"

\* get_transcript is entered: api.list(video_id)
ListTracks ==
    /\ pc = "list"
    /\ log' = Append(log, "get_transcript")
    /\ \/ \E tl \in TrackLists :
            /\ transcript_list' = tl
            /\ svc_calls' = Append(svc_calls, [op |-> "list", outcome |-> "ok"])
            /\ pc' = "select"
            /\ UNCHANGED <<st_error, st_info>>
       \/ \E e \in ServiceErrors :
            /\ Raise("list", e)
            /\ UNCHANGED transcript_list
    /\ UNCHANGED <<youtube_url, generate_button, video_id, transcript, transcript_data,
                   transcript_text, lesson_card, rendered, download>>

\* find_transcript(['it', 'en']), else the first track, else NoTranscriptFound
SelectTrack ==
    /\ pc = "select"
    /\ IF select_track(transcript_list) # 0
       THEN /\ transcript' = transcript_list[select_track(transcript_list)]
            /\ svc_calls' = Append(svc_calls, [op |-> "select", outcome |-> "ok"])
            /\ pc' = "fetch"
            /\ UNCHANGED <<st_error, st_info>>
       ELSE /\ Raise("select", "NoTranscriptFound")
            /\ UNCHANGED transcript
    /\ UNCHANGED <<youtube_url, generate_button, video_id, transcript_list, transcript_data,
                   transcript_text, lesson_card, rendered, download, log>>

\* transcript.fetch() and the concatenation of the segments' texts
FetchTrack ==
    /\ pc = "fetch"
    /\ \/ \E data \in SegmentLists :
            /\ transcript_data' = data
            /\ transcript_text' = full_text(data)
            /\ svc_calls' = Append(svc_calls, [op |-> "fetch", outcome |-> "ok"])
            /\ pc' = "template"
            /\ UNCHANGED <<st_error, st_info>>
       \/ \E e \in ServiceErrors :
            /\ Raise("fetch", e)
            /\ UNCHANGED <<transcript_data, transcript_text>>
    /\ UNCHANGED <<youtube_url, generate_button, video_id, transcript_list, transcript,
                   lesson_card, rendered, download, log>>

\* lesson_card = generate_lesson_from_text(transcript_text)
Template ==
    /\ pc = "template"
    /\ lesson_card' = generate_lesson_from_text(transcript_text)
    /\ log' = Append(log, "template")
    /\ pc' = "render"
    /\ UNCHANGED <<youtube_url, generate_button, video_id, svc_calls, transcript_list,
                   transcript, transcript_data, transcript_text, st_error, st_info,
                   rendered, download>>

\* st.markdown(lesson_card) and st.download_button(...)
Render ==
    /\ pc = "render"
    /\ rendered' = lesson_card
    /\ download' = [data |-> lesson_card,
                    file_name |-> <<"lezione_">> \o video_id \o <<".md">>]
    /\ log' = log \o <<"render", "download">>
    /\ pc' = "done"
    /\ UNCHANGED <<youtube_url, generate_button, video_id, svc_calls, transcript_list,
                   transcript, transcript_data, transcript_text, lesson_card, st_error,
                   st_info>>

\* main has returned; the next interaction starts a new run, which keeps
\* nothing of this one: no local, and nothing of what the page showed
Rerun ==
    /\ pc = "done"
    /\ pc' = "idle"
    /\ youtube_url' = <<>>
    /\ generate_button' = FALSE
    /\ video_id' = None
    /\ svc_calls' = <<>>
    /\ transcript_list' = <<>>
    /\ transcript' = NoTrack
    /\ transcript_data' = <<>>
    /\ transcript_text' = <<>>
    /\ lesson_card' = NoCard
    /\ st_error' = NoError
    /\ st_info' = NoInfo
    /\ rendered' = NoCard
    /\ download' = NoDownload
    /\ log' = <<>>

Next == Run \/ ListTracks \/ SelectTrack \/ FetchTrack \/ Template \/ Render \/ Rerun

Spec == Init /\ [][Next]_vars

(***************************************************************************)
(* extract_video_id alone, on every URL of UrlInputs                       *)
(***************************************************************************)
InitExtract ==
    /\ pc = "extract"
    /\ youtube_url \in UrlInputs
    /\ generate_button = TRUE
    /\ Blank

Extract ==
    /\ pc = "extract"
    /\ video_id' = extract_video_id(youtube_url)
    /\ pc' = "extracted"
    /\ UNCHANGED <<youtube_url, generate_button, svc_calls, transcript_list, transcript,
                   transcript_data, transcript_text, lesson_card, st_error, st_info,
                   rendered, download, log>>

SpecExtract == InitExtract /\ [][Extract]_vars

(***************************************************************************)
(* generate_lesson_from_text alone, on every transcript of TextInputs      *)
(***************************************************************************)
InitCard ==
    /\ pc = "template"
    /\ youtube_url = <<>>
    /\ generate_button = TRUE
    /\ video_id = None
    /\ svc_calls = <<>>
    /\ transcript_list = <<>>
    /\ transcript = NoTrack
    /\ transcript_data = <<>>
    /\ transcript_text \in TextInputs
    /\ lesson_card = NoCard
    /\ st_error = NoError
    /\ st_info = NoInfo
    /\ rendered = NoCard
    /\ download = NoDownload
    /\ log = <<>>

SpecCard == InitCard /\ [][Template]_vars

(***************************************************************************)
(* Properties of extract_video_id (checked under SpecExtract)              *)
(***************************************************************************)
\* the four supported URL shapes, as the text that precedes the identifier:
\* youtube.com/watch?[...&]v=, youtu.be/, youtube.com/embed/, youtube.com/v/
ShapeHost ==
    << <<"y","o","u","t","u","b","e",".","c","o","m","/","w","a","t","c","h","?">>,
       <<"y","o","u","t","u",".","b","e","/">>,
       <<"y","o","u","t","u","b","e",".","c","o","m","/","e","m","b","e","d","/">>,
       <<"y","o","u","t","u","b","e",".","c","o","m","/","v","/">> >>

\* a valid 11-character token stands at c, embedded in shape k
EmbeddedAt(url, k, c) ==
    /\ TokenAt(url, c)
    /\ IF k = 1
       THEN /\ StartsAt(url, c - 2, <<"v", "=">>)
            /\ \E q \in 1..c :
                 /\ StartsAt(url, q, ShapeHost[1])
                 /\ \/ q + Len(ShapeHost[1]) = c - 2
                    \/ /\ q + Len(ShapeHost[1]) <= c - 3
                       /\ url[c - 3] = "&"
                       /\ NoNewline(url, q + Len(ShapeHost[1]), c - 4)
       ELSE StartsAt(url, c - Len(ShapeHost[k]), ShapeHost[k])

EmbeddedTokens(url, k) ==
    { SubSeq(url, c, c + IdLength - 1) : c \in { d \in 1..Len(url) : EmbeddedAt(url, k, d) } }

AllEmbedded(url) == UNION { EmbeddedTokens(url, k) : k \in 1..4 }

\* C1, as stated: every token that the string embeds in one of the four
\* shapes is the token returned, and a string with none of the shapes gives None.
C1_ReturnsEveryEmbeddedToken ==
    pc = "extracted" =>
        /\ \A tok \in AllEmbedded(youtube_url) : video_id = tok
        /\ AllEmbedded(youtube_url) = {} => video_id = None

\* C1, amended: the token returned is one embedded in the first shape, in
\* the order watch?v=, youtu.be/, embed/, v/, that the string contains; it is
\* exactly the embedded token when the string embeds only one; a string with
\* none of the four shapes gives None.
C1_ReturnsTokenOfFirstShape ==
    pc = "extracted" =>
        LET present == { k \in 1..4 : EmbeddedTokens(youtube_url, k) # {} }
        IN  /\ present = {} => video_id = None
            /\ present # {} => video_id \in EmbeddedTokens(youtube_url, Min(present))
            /\ Cardinality(AllEmbedded(youtube_url)) = 1 => AllEmbedded(youtube_url) = {video_id}

\* a URL of the legacy v/ shape, behind junk, whose only token was returned
C1_Witness ==
    /\ pc = "extracted"
    /\ Cardinality(AllEmbedded(youtube_url)) = 1
    /\ EmbeddedTokens(youtube_url, 4) = {video_id}
    /\ youtube_url[1] = "x"

(***************************************************************************)
(* Properties of get_transcript and main (checked under Spec)              *)
(***************************************************************************)
HasLanguage(tl, code) == \E i \in 1..Len(tl) : tl[i].language_code = code

Selected == Len(svc_calls) >= 2

\* C2: an Italian track is selected when one exists, also beside an English
\* one; else an English one; else the first track in iteration order; with
\* no track selection fails with NoTranscriptFound and its message.
C2_TrackSelection ==
    Selected =>
        /\ HasLanguage(transcript_list, "it") =>
              /\ svc_calls[2].outcome = "ok"
              /\ transcript.language_code = "it"
        /\ (~HasLanguage(transcript_list, "it") /\ HasLanguage(transcript_list, "en")) =>
              /\ svc_calls[2].outcome = "ok"
              /\ transcript.language_code = "en"
        /\ (~HasLanguage(transcript_list, "it") /\ ~HasLanguage(transcript_list, "en")
                /\ Len(transcript_list) > 0) =>
              /\ svc_calls[2].outcome = "ok"
              /\ transcript = transcript_list[1]
        /\ Len(transcript_list) = 0 =>
              /\ svc_calls[2].outcome = "NoTranscriptFound"
              /\ transcript = NoTrack
              /\ pc = "done"
              /\ st_error = <<"Errore: ", "Nessuna trascrizione trovata per questo video.">>
        /\ svc_calls[2].outcome = "ok" =>
              \E i \in 1..Len(transcript_list) : transcript = transcript_list[i]

\* English is listed before Italian, and the Italian track was selected
C2_Witness ==
    /\ Selected
    /\ \E i \in 1..Len(transcript_list) : \E j \in 1..(i - 1) :
          /\ transcript_list[i].language_code = "it"
          /\ transcript_list[j].language_code = "en"
    /\ transcript.language_code = "it"

\* C3: a service call that fails with one of the three named conditions is
\* the last call of the submission; the run has ended with the message of
\* that condition, the three messages differ pairwise, and neither the
\* templater nor the rendering nor the download has run.
C3_NamedFailureIsTerminal ==
    /\ \A e1 \in NamedErrors : \A e2 \in NamedErrors :
          e1 # e2 => ExceptionMessage(e1) # ExceptionMessage(e2)
    /\ \A i \in 1..Len(svc_calls) :
          svc_calls[i].outcome \in NamedErrors =>
              /\ i = Len(svc_calls)
              /\ pc = "done"
              /\ st_error = <<"Errore: ", ExceptionMessage(svc_calls[i].outcome)>>
              /\ st_info = CausesHint
              /\ lesson_card = NoCard
              /\ rendered = NoCard
              /\ download = NoDownload
              /\ log = <<"extract", "get_transcript">>

\* fetching the chosen track failed with VideoUnavailable
C3_Witness ==
    /\ Len(svc_calls) = 3
    /\ svc_calls[3] = [op |-> "fetch", outcome |-> "VideoUnavailable"]
    /\ st_error = <<"Errore: ", "Video non disponibile o ID non valido.">>

\* where segment i starts in the transcript, less one
RECURSIVE SegmentOffset(_, _)
SegmentOffset(data, i) ==
    IF i = 1 THEN 0 ELSE SegmentOffset(data, i - 1) + Len(data[i - 1].text) + 1

Fetched == Len(svc_calls) = 3 /\ svc_calls[3].outcome = "ok"

\* C4: the transcript is the segments' texts in the order returned, one
\* space between consecutive texts, nothing before the first text and nothing
\* after the last, so nothing of the timing fields; no segment, empty string.
C4_Concatenation ==
    Fetched =>
        LET n == Len(transcript_data)
        IN  IF n = 0 THEN transcript_text = <<>>
            ELSE /\ Len(transcript_text) =
                        SegmentOffset(transcript_data, n) + Len(transcript_data[n].text)
                 /\ \A i \in 1..n :
                        LET off == SegmentOffset(transcript_data, i)
                            txt == transcript_data[i].text
                        IN  /\ SubSeq(transcript_text, off + 1, off + Len(txt)) = txt
                            /\ i < n => transcript_text[off + Len(txt) + 1] = " "

\* the segments Hello and world gave the transcript Hello world
C4_Witness ==
    /\ Fetched
    /\ Len(transcript_data) = 2
    /\ transcript_data[1].text = <<"H","e","l","l","o">>
    /\ transcript_data[2].text = <<"w","o","r","l","d">>
    /\ transcript_text = <<"H","e","l","l","o"," ","w","o","r","l","d">>

\* the shapes the extractor accepts, each as the text before the identifier
ExtractorShapes ==
    { patterns[k].lit \o (IF patterns[k].query THEN <<"v", "=">> ELSE <<>>) :
        k \in 1..Len(patterns) }

\* C8: the hint shown with the invalid-URL message lists the four shapes the
\* extractor accepts.
C8_HintListsAllShapes ==
    st_error = InvalidUrlError =>
        /\ st_info.title = "Formati supportati:"
        /\ st_info.shapes = ExtractorShapes

PipelineOrder == <<"extract", "get_transcript", "template", "render", "download">>

CallsOf(op) == { i \in 1..Len(svc_calls) : svc_calls[i].op = op }

\* C9: the steps of a submission run in the order extract, fetch, template,
\* render/download, each only after the earlier ones succeeded; an empty URL
\* or one without identifier ends the run with the user-input message, no
\* service call, no card and no download; the service is called at most once.
C9_LinearPipeline ==
    /\ Len(log) <= Len(PipelineOrder)
    /\ log = SubSeq(PipelineOrder, 1, Len(log))
    /\ (generate_button /\ pc # "idle" /\ youtube_url = <<>>) =>
          /\ pc = "done"
          /\ st_error = EmptyUrlError
          /\ log = <<>>
    /\ (generate_button /\ pc # "idle" /\ youtube_url # <<>> /\ video_id = None) =>
          /\ pc = "done"
          /\ st_error = InvalidUrlError
          /\ log = <<"extract">>
    /\ Len(log) <= 1 =>
          /\ svc_calls = <<>>
          /\ lesson_card = NoCard
          /\ rendered = NoCard
          /\ download = NoDownload
    /\ Len(log) >= 2 => (generate_button /\ video_id # None /\ TokenAt(video_id, 1))
    /\ Len(log) >= 3 => (Fetched /\ \A i \in 1..3 : svc_calls[i].outcome = "ok")
    /\ Len(log) >= 4 => (lesson_card # NoCard /\ rendered = lesson_card
                            /\ download.data = lesson_card)
    /\ Len(log) < 4 => (rendered = NoCard /\ download = NoDownload)
    /\ Len(log) < 3 => lesson_card = NoCard
    /\ \A op \in {"list", "select", "fetch"} : Cardinality(CallsOf(op)) <= 1

\* a submission that went through every step
C9_Witness ==
    /\ pc = "done"
    /\ log = PipelineOrder
    /\ Len(svc_calls) = 3
    /\ download.file_name = <<"lezione_">> \o video_id \o <<".md">>

(***************************************************************************)
(* Properties of generate_lesson_from_text (checked under SpecCard)        *)
(***************************************************************************)
Templated == pc = "render"

\* C5: up to 500 characters the preview is the escaped transcript; beyond,
\* it is the escaped first 500 characters followed by three literal dots.
C5_PreviewEllipsis ==
    Templated =>
        /\ Len(transcript_text) <= PreviewLimit =>
              lesson_card.preview_escaped = escape_markdown(transcript_text)
        /\ Len(transcript_text) > PreviewLimit =>
              lesson_card.preview_escaped =
                  escape_markdown(SubSeq(transcript_text, 1, PreviewLimit)) \o <<".", ".", ".">>

\* the 16 characters the escaping is about
MarkdownSpecials ==
    {"\\", Backtick, "*", "_", "{", "}", "[", "]", "(", ")", "#", "+", "-", ".", "!", "|"}

NumSpecial(s, i) == Cardinality({ j \in 1..i : s[j] \in MarkdownSpecials })

\* out is s with one backslash put before each special character and every
\* other character kept in place
IsCharMap(s, out) ==
    /\ Len(out) = Len(s) + NumSpecial(s, Len(s))
    /\ \A i \in 1..Len(s) :
          LET at == i + NumSpecial(s, i)
          IN  /\ out[at] = s[i]
              /\ s[i] \in MarkdownSpecials => out[at - 1] = "\\"

\* C6: the full-transcript section is the raw transcript with every special
\* character prefixed by a single backslash and all else unchanged.
C6_EscapeIsCharMap ==
    Templated => IsCharMap(transcript_text, lesson_card.transcript_escaped)

\* a*b_c became a\*b\_c
C6_Witness ==
    /\ Templated
    /\ transcript_text = <<"a", "*", "b", "_", "c">>
    /\ lesson_card.transcript_escaped = <<"a", "\\", "*", "b", "\\", "_", "c">>

\* where the whitespace-delimited tokens of s start
TokenStarts(s) ==
    { i \in 1..Len(s) : s[i] \notin Whitespace /\ (i = 1 \/ s[i - 1] \in Whitespace) }

\* C7: the word count of the card is the number of whitespace-delimited
\* tokens of the raw transcript, whatever is escaped or cut for the preview.
C7_WordCount ==
    Templated => lesson_card.word_count = Cardinality(TokenStarts(transcript_text))

\* a transcript longer than the preview, with words past the cut and
\* characters that get escaped
C7_Witness ==
    /\ Templated
    /\ Len(transcript_text) > PreviewLimit
    /\ \E i \in TokenStarts(transcript_text) : i > PreviewLimit
    /\ \E i \in 1..Len(transcript_text) : transcript_text[i] \in MarkdownSpecials
    /\ lesson_card.word_count > 100

HasSpecial(s) == \E i \in 1..Len(s) : s[i] \in MarkdownSpecials

\* C10, as stated: for an input with a special character, escaping twice
\* differs from escaping once, and within the single pass a later substitution
\* escapes a backslash that an earlier one inserted (so the output grows by
\* more than one character per special character).
C10_ReEscapesWithinPass ==
    (Templated /\ HasSpecial(transcript_text)) =>
        /\ escape_markdown(lesson_card.transcript_escaped) # lesson_card.transcript_escaped
        /\ Len(lesson_card.transcript_escaped) >
              Len(transcript_text) + NumSpecial(transcript_text, Len(transcript_text))

\* C10, amended: for an input with a special character, escaping twice
\* differs from escaping once; within the single pass no inserted backslash
\* is escaped again, the backslash being the first character of the list: the
\* output grows by exactly one character per special character.
C10_NonIdempotentOnly ==
    (Templated /\ HasSpecial(transcript_text)) =>
        /\ escape_markdown(lesson_card.transcript_escaped) # lesson_card.transcript_escaped
        /\ Len(lesson_card.transcript_escaped) =
              Len(transcript_text) + NumSpecial(transcript_text, Len(transcript_text))

\* a transcript of backslash and star, escaped once and then once more
C10_Witness ==
    /\ Templated
    /\ transcript_text = <<"\\", "*">>
    /\ lesson_card.transcript_escaped = <<"\\", "\\", "\\", "*">>
    /\ escape_markdown(lesson_card.transcript_escaped) =
          <<"\\", "\\", "\\", "\\", "\\", "\\", "\\", "*">>

====
